---- MODULE Spec2Model ----
(***************************************************************************)
(* Model of the DSAM controller firmware (dsamcontroller.ino): setup(),    *)
(* the polling loop() with its Action / Mode / Standard / Dilute branches, *)
(* the lookup tables and setOutputPins().                                  *)
(*                                                                         *)
(* Words are 16-bit unsigned integers; logical position p (counted from    *)
(* the MSB) is physical bit lsb[p] = 15 - p.  A bit of 0 means ON/ACTION.  *)
(***************************************************************************)
EXTENDS Integers, Sequences, FiniteSets, TLC

\* ------------------------------------------------------------------ bounds
\* at most this many buttons are physically held down at the same time
MaxHeld == 2

\* how many times in a row the output driver is called on one plan
MaxApplies == 2

\* --------------------------------------------------------------- constants
LOW == 0
HIGH == 1
buttonBounceDelay == 500
actionIdx == 7
nActions == 3
modeIdx == 10
nModes == 4
purcgBit == 7
loadBit == 8
analyzeBit == 9
discreteBit == 10
septumBit == 11
loopABit == 12
loopBBit == 13
diluteBit == 14
standardBit == 15
diluteDelay == 2000
setPinsStandard == 64140
buttonSetStartup == 65399
setPinsStartup == 64144

\* a C array of 16 ints, indexed 0..15
Arr16(t) == [p \in 0..15 |-> t[p + 1]]

buttonPins == Arr16(<<0, 0, 0, 0, 0, 0, 0, 22, 23, 24, 25, 26, 27, 28, 29, 37>>)
LEDPins == Arr16(<<0, 0, 0, 0, 0, 0, 0, 36, 35, 34, 33, 32, 31, 30, 53, 52>>)
outPins == Arr16(<<0, 0, 0, 0, 51, 50, 49, 48, 47, 46, 45, 44, 43, 42, 41, 40>>)
lsb == Arr16(<<15, 14, 13, 12, 11, 10, 9, 8, 7, 6, 5, 4, 3, 2, 1, 0>>)

\* variant: the key for Purge + Discrete is mistyped
buttonSetsOneStepTypo == [k \in 0..11 |->
    <<65246, 65263, 65271, 65275, 65375, 65391, 65399, 65403, 65439, 65455, 65463, 65467>>[k + 1]]

\* lookup tables, indexed from 0 as in the source
buttonSetsOneStep == [k \in 0..11 |->
    <<65247, 65263, 65271, 65275, 65375, 65391, 65399, 65403, 65439, 65455, 65463, 65467>>[k + 1]]
setPinsOneStep == [k \in 0..11 |->
    <<64170, 64170, 63914, 64170, 63056, 64080, 64144, 63888, 64064, 64098, 63841, 64097>>[k + 1]]
setPinsDilute1 == [k \in 0..3 |-> <<64170, 64170, 63914, 64170>>[k + 1]]
\* variant: the phase-2 plan for septum is mistyped
setPinsDilute2Typo == [k \in 0..3 |-> <<64064, 64096, 63841, 64097>>[k + 1]]

setPinsDilute2 == [k \in 0..3 |-> <<64064, 64098, 63841, 64097>>[k + 1]]

\* every pin number the sketch can pass to digitalWrite / digitalRead
Pins == {0} \cup 22..53
ButtonPinSet == {buttonPins[p] : p \in actionIdx..15}

\* ------------------------------------------------------- bit primitives
Pow2(n) ==
    <<1, 2, 4, 8, 16, 32, 64, 128, 256, 512, 1024, 2048, 4096, 8192, 16384, 32768>>[n + 1]

bitRead(w, b) == (w \div Pow2(b)) % 2

bitWrite(w, b, v) == w - bitRead(w, b) * Pow2(b) + v * Pow2(b)

\* the word whose bit b is f[b]
wordOf(f) ==
    f[0] + 2 * f[1] + 4 * f[2] + 8 * f[3] + 16 * f[4] + 32 * f[5] + 64 * f[6]
    + 128 * f[7] + 256 * f[8] + 512 * f[9] + 1024 * f[10] + 2048 * f[11]
    + 4096 * f[12] + 8192 * f[13] + 16384 * f[14] + 32768 * f[15]

\* bitWrite(w, lsb[p], HIGH) for every position p in S
bitsHigh(w, S) ==
    wordOf([b \in 0..15 |-> IF \E p \in S : lsb[p] = b THEN HIGH ELSE bitRead(w, b)])

\* ------------------------------------------------------------------ state
VARIABLES
    pc,              \* "boot" | "scan" | "diluteDelay" | "bounceDelay"
    ipin,            \* scan position about to be read
    i,               \* global loop counter / dilute mode index
    buttonState,     \* last level read
    lastbuttonState, \* copy of the last level read
    buttonWord,      \* ButtonState
    LEDWord,         \* IndicatorState
    pinsToSet,       \* ActuationPlan
    pinLevel,        \* level last written to each pin
    written,         \* pin numbers that have received a digitalWrite
    events,          \* serial lines, plan applications and holds of the
                     \* handler that ran last
    buttonLevel      \* physical level of each button input

vars == <<pc, ipin, i, buttonState, lastbuttonState, buttonWord, LEDWord,
          pinsToSet, pinLevel, written, events, buttonLevel>>

\* the part of the state a handler works on, as one record
Machine == [buttonWord |-> buttonWord, LEDWord |-> LEDWord,
            pinsToSet |-> pinsToSet, pinLevel |-> pinLevel,
            written |-> written, events |-> events, i |-> i]

Store(m) ==
    /\ buttonWord' = m.buttonWord
    /\ LEDWord' = m.LEDWord
    /\ pinsToSet' = m.pinsToSet
    /\ pinLevel' = m.pinLevel
    /\ written' = m.written
    /\ events' = m.events
    /\ i' = m.i

\* ------------------------------------------------------------ primitives
digitalWrite(m, pin, v) ==
    [m EXCEPT !.pinLevel = [@ EXCEPT ![pin] = v], !.written = @ \cup {pin}]

SerialPrint(m, text) == [m EXCEPT !.events = Append(@, <<"print", text>>)]

delay(m, ms) == [m EXCEPT !.events = Append(@, <<"delay", ms>>)]

displayStates(m, input, output) ==
    [m EXCEPT !.events = Append(@, <<"displayStates", input, output>>)]

\* a run of digitalWrite calls, ws[n] = <<pin, level>> in program order: each
\* pin ends at the level of the last write it received
Last(S) == CHOOSE n \in S : \A k \in S : k <= n

writeAll(m, ws) ==
    LET at(pin) == {n \in 1..Len(ws) : ws[n][1] = pin}
    IN [m EXCEPT !.pinLevel = [pin \in Pins |->
                                  IF at(pin) = {} THEN @[pin]
                                  ELSE ws[Last(at(pin))][2]],
                 !.written = @ \cup {ws[n][1] : n \in 1..Len(ws)}]

\* variant: the polarity is inverted, a 1 bit drives the pin LOW
outputWritesActiveHigh(pinWord) ==
    [n \in 1..16 |->
        LET b == n - 1
            bitValue == bitRead(pinWord, b)
        IN IF bitValue # 0 /\ outPins[lsb[b]] # 0
           THEN <<outPins[lsb[b]], LOW>>
           ELSE <<outPins[lsb[b]], HIGH>>]

\* the writes of setOutputPins for b = 0..15: HIGH only when the bit is 1
\* and a pin is wired; every other case writes LOW to outPins[lsb[b]],
\* which is pin 0 where no pin is wired
outputWrites(pinWord) ==
    [n \in 1..16 |->
        LET b == n - 1
            bitValue == bitRead(pinWord, b)
        IN IF bitValue # 0 /\ outPins[lsb[b]] # 0
           THEN <<outPins[lsb[b]], HIGH>>
           ELSE <<outPins[lsb[b]], LOW>>]

\* variant: an active bit toggles its pin instead of driving it LOW
setOutputPinsToggle(m, pinWord) ==
    writeAll([m EXCEPT !.events = Append(@, <<"setOutputPins", pinWord>>)],
             [n \in 1..16 |->
                 LET b == n - 1
                     pin == outPins[lsb[b]]
                 IN IF bitRead(pinWord, b) # 0 /\ pin # 0
                    THEN <<pin, HIGH>>
                    ELSE <<pin, 1 - m.pinLevel[pin]>>])

setOutputPins(m, pinWord) ==
    writeAll([m EXCEPT !.events = Append(@, <<"setOutputPins", pinWord>>)],
             outputWrites(pinWord))

\* ------------------------------------------------------------------ setup
\* first loop of setup(), ipin = 7..15: pull-up on the input, indicator
\* LOW, both flag bits HIGH
setupInputs(m) ==
    LET ws == [n \in 1..18 |->
                  LET p == actionIdx + ((n - 1) \div 2)
                  IN IF n % 2 = 1 THEN <<buttonPins[p], HIGH>>
                                  ELSE <<LEDPins[p], LOW>>]
    IN [writeAll(m, ws) EXCEPT !.buttonWord = bitsHigh(@, actionIdx..15),
                               !.LEDWord = bitsHigh(@, actionIdx..15)]

\* second loop of setup(), ipin = 4..15: actuation outputs HIGH, bits HIGH
setupOutputs(m) ==
    LET ws == [n \in 1..12 |-> <<outPins[n + 3], HIGH>>]
    IN [writeAll(m, ws) EXCEPT !.pinsToSet = bitsHigh(@, 4..15)]

\* variant: the startup plan is recorded but not applied
startupStateNoApply(m) ==
    LET m1 == SerialPrint(m, "Starting Mode is Load Loop A")
        m2 == digitalWrite(m1, LEDPins[loadBit], HIGH)
        m3 == digitalWrite(m2, LEDPins[loopABit], HIGH)
        m4 == [m3 EXCEPT !.buttonWord = buttonSetStartup,
                         !.LEDWord = buttonSetStartup,
                         !.pinsToSet = setPinsStartup]
    IN displayStates(m4, m4.buttonWord, m4.pinsToSet)

\* the graceful start: Load + Loop A
startupState(m) ==
    LET m1 == SerialPrint(m, "Starting Mode is Load Loop A")
        m2 == digitalWrite(m1, LEDPins[loadBit], HIGH)
        m3 == digitalWrite(m2, LEDPins[loopABit], HIGH)
        m4 == [m3 EXCEPT !.buttonWord = buttonSetStartup,
                         !.LEDWord = buttonSetStartup,
                         !.pinsToSet = setPinsStartup]
        m5 == displayStates(m4, m4.buttonWord, m4.pinsToSet)
    IN setOutputPins(m5, m5.pinsToSet)

setup ==
    /\ pc = "boot"
    /\ LET m0 == SerialPrint([Machine EXCEPT !.events = <<>>],
                             "DSAM Control Program Version ")
           m1 == setupInputs(m0)
           m2 == setupOutputs(m1)
           m3 == SerialPrint(delay(m2, 2000), "End of setup")
       IN Store([startupState(m3) EXCEPT !.i = i])
    /\ pc' = "scan"
    /\ ipin' = actionIdx
    /\ UNCHANGED <<buttonState, lastbuttonState, buttonLevel>>

\* ------------------------------------------------------------------- loop
\* the for-loop increment; when the scan ends loop() is entered again
nextIpin(p) == IF p + 1 < 16 THEN p + 1 ELSE actionIdx

\* variant: a button counts as pressed only when the reading before it was
\* HIGH
readButtonOnEdge(level) ==
    /\ pc = "scan"
    /\ level = IF lastbuttonState = LOW THEN HIGH ELSE buttonLevel[buttonPins[ipin]]
    /\ buttonState' = buttonLevel[buttonPins[ipin]]
    /\ lastbuttonState' = buttonLevel[buttonPins[ipin]]

\* digitalRead(buttonPins[ipin]) and the copy into lastbuttonState
readButton(level) ==
    /\ pc = "scan"
    /\ buttonLevel[buttonPins[ipin]] = level
    /\ buttonState' = level
    /\ lastbuttonState' = level

\* variant: only the LED and LEDWord are cleared, buttonWord keeps the bit
standardClearGuardLEDOnly(m) ==
    IF bitRead(m.LEDWord, lsb[standardBit]) = 0
    THEN LET m1 == digitalWrite(m, LEDPins[standardBit], LOW)
         IN [m1 EXCEPT !.LEDWord = bitWrite(@, lsb[standardBit], HIGH)]
    ELSE m

\* lines 155-159: Standard's LED and bit are turned off on any press
standardClearGuard(m) ==
    IF bitRead(m.LEDWord, lsb[standardBit]) = 0
    THEN LET m1 == digitalWrite(m, LEDPins[standardBit], LOW)
         IN [m1 EXCEPT !.LEDWord = bitWrite(@, lsb[standardBit], HIGH),
                       !.buttonWord = bitWrite(@, lsb[standardBit], HIGH)]
    ELSE m

\* variant: the flag bits are set but the LED pin is not driven
turnOnWordsOnly(m, p) ==
    [m EXCEPT !.LEDWord = bitWrite(@, lsb[p], LOW),
              !.buttonWord = bitWrite(@, lsb[p], LOW)]

\* the pressed position goes ON in the LED, LEDWord and buttonWord
turnOn(m, p) ==
    LET m1 == digitalWrite(m, LEDPins[p], HIGH)
    IN [m1 EXCEPT !.LEDWord = bitWrite(@, lsb[p], LOW),
                  !.buttonWord = bitWrite(@, lsb[p], LOW)]

\* for (i = from; i < to; i++) if (i != p) { LED LOW, both flag bits HIGH }
turnOffOthers(m, p, from, to) ==
    LET scanned == [n \in 1..(to - from) |-> from + n - 1]
        others == SelectSeq(scanned, LAMBDA q : q # p)
        ws == [n \in 1..Len(others) |-> <<LEDPins[others[n]], LOW>>]
        S == {others[n] : n \in 1..Len(others)}
    IN [writeAll(m, ws) EXCEPT !.buttonWord = bitsHigh(@, S),
                               !.LEDWord = bitsHigh(@, S),
                               !.i = to]

\* for (i = 0; i < 12; i++) if (buttonWord == buttonSetsOneStep[i])
\*     pinsToSet = setPinsOneStep[i];   -- the last matching row is kept
findCommandSet(m) ==
    LET rows == {k \in 0..11 : m.buttonWord = buttonSetsOneStep[k]}
    IN [m EXCEPT !.pinsToSet = IF rows = {} THEN @ ELSE setPinsOneStep[Last(rows)],
                 !.i = 12]

\* print, look up, display, apply, hold (lines 179-188 and 206-215)
oneStep(m, text) ==
    LET m1 == SerialPrint(m, text)
        m2 == findCommandSet(m1)
        m3 == displayStates(m2, m2.buttonWord, m2.pinsToSet)
        m4 == setOutputPins(m3, m3.pinsToSet)
    IN delay(m4, buttonBounceDelay)

\* variant: the clearing loop runs over the Action and the Mode positions
actionBranchWholeRange(m, p) ==
    LET m1 == turnOn(m, p)
        m2 == turnOffOthers(m1, p, actionIdx, actionIdx + nActions + nModes)
    IN oneStep(m2, "Pushed Action")

\* the Action branch (lines 163-189); control then falls to line 205
actionBranch(m, p) ==
    LET m1 == turnOn(m, p)
        m2 == turnOffOthers(m1, p, actionIdx, actionIdx + nActions)
    IN oneStep(m2, "Pushed Action")

\* variant: the other Mode positions are left as they were
modeBranchKeepOthers(m, p) == [turnOn(m, p) EXCEPT !.i = modeIdx + nModes]

\* the Mode branch (lines 190-204)
modeBranch(m, p) ==
    LET m1 == turnOn(m, p)
    IN turnOffOthers(m1, p, modeIdx, modeIdx + nModes)

\* variant: the Standard branch applies pinsToSet, as the other branches do
standardBranchAppliesPinsToSet(m) ==
    LET m1 == turnOn(m, standardBit)
        m2 == turnOffOthers(m1, standardBit, 0, 16)
        m3 == SerialPrint(m2, "Pushed Standard")
        m4 == displayStates(m3, m3.buttonWord, m3.pinsToSet)
        m5 == setOutputPins(m4, m4.pinsToSet)
    IN delay(m5, buttonBounceDelay)

\* the Standard branch (lines 217-237); pinsToSet is not assigned
standardBranch(m) ==
    LET m1 == turnOn(m, standardBit)
        m2 == turnOffOthers(m1, standardBit, 0, 16)
        m3 == SerialPrint(m2, "Pushed Standard")
        m4 == displayStates(m3, m3.buttonWord, setPinsStandard)
        m5 == setOutputPins(m4, setPinsStandard)
    IN delay(m5, buttonBounceDelay)

\* variant: with no mode bit active the index falls back to discrete
diluteIndexDefault0(w) ==
    IF bitRead(w, lsb[discreteBit]) = 0 THEN 0
    ELSE IF bitRead(w, lsb[septumBit]) = 0 THEN 1
    ELSE IF bitRead(w, lsb[loopABit]) = 0 THEN 2
    ELSE IF bitRead(w, lsb[loopBBit]) = 0 THEN 3
    ELSE 0

\* which mode?  {discrete, septum, A, B}, first active wins, else -1
diluteIndex(w) ==
    IF bitRead(w, lsb[discreteBit]) = 0 THEN 0
    ELSE IF bitRead(w, lsb[septumBit]) = 0 THEN 1
    ELSE IF bitRead(w, lsb[loopABit]) = 0 THEN 2
    ELSE IF bitRead(w, lsb[loopBBit]) = 0 THEN 3
    ELSE -1

diluteNarration(k) ==
    IF k = 0 THEN "for discrete"
    ELSE IF k = 1 THEN "for septum"
    ELSE IF k = 2 THEN "for loop A"
    ELSE IF k = 3 THEN "for loop B"
    ELSE "???"

\* variant: the gate tests the load bit
diluteAllowedInLoad(w) == bitRead(w, lsb[loadBit]) = 0

\* dilute may run only when the analyze bit is 0
diluteAllowed(w) == bitRead(w, lsb[analyzeBit]) = 0

\* phase 1 (lines 268-270)
dilutePhase1(m) ==
    LET m1 == [m EXCEPT !.pinsToSet = setPinsDilute1[m.i]]
        m2 == displayStates(m1, m1.buttonWord, m1.pinsToSet)
    IN setOutputPins(m2, m2.pinsToSet)

\* variant: phase 2 applies the phase-1 table again
dilutePhase2Repeat1(m) ==
    LET m1 == SerialPrint(m, "now to analyze")
        m2 == [m1 EXCEPT !.pinsToSet = setPinsDilute1[m.i]]
        m3 == displayStates(m2, m2.buttonWord, m2.pinsToSet)
    IN setOutputPins(m3, m3.pinsToSet)

\* phase 2 (lines 272-275)
dilutePhase2(m) ==
    LET m1 == SerialPrint(m, "now to analyze")
        m2 == [m1 EXCEPT !.pinsToSet = setPinsDilute2[m.i]]
        m3 == displayStates(m2, m2.buttonWord, m2.pinsToSet)
    IN setOutputPins(m3, m3.pinsToSet)

\* start of a handler: the narration of the previous one is dropped
enter == standardClearGuard([Machine EXCEPT !.events = <<>>])

\* a button that reads HIGH is skipped
scanIdle ==
    /\ readButton(HIGH)
    /\ ipin' = nextIpin(ipin)
    /\ UNCHANGED <<pc, i, buttonWord, LEDWord, pinsToSet, pinLevel, written,
                   events, buttonLevel>>

\* variant: after servicing an Action button the scan starts over
pushActionRestart ==
    /\ readButton(LOW)
    /\ ipin >= actionIdx /\ ipin < actionIdx + nActions
    /\ Store(oneStep(actionBranch(enter, ipin), "Pushed Mode"))
    /\ ipin' = actionIdx
    /\ UNCHANGED <<pc, buttonLevel>>

pushAction ==
    /\ readButton(LOW)
    /\ ipin >= actionIdx /\ ipin < actionIdx + nActions
    /\ Store(oneStep(actionBranch(enter, ipin), "Pushed Mode"))
    /\ ipin' = nextIpin(ipin)
    /\ UNCHANGED <<pc, buttonLevel>>

pushMode ==
    /\ readButton(LOW)
    /\ ipin >= modeIdx /\ ipin < modeIdx + nModes
    /\ Store(oneStep(modeBranch(enter, ipin), "Pushed Mode"))
    /\ ipin' = nextIpin(ipin)
    /\ UNCHANGED <<pc, buttonLevel>>

pushStandard ==
    /\ readButton(LOW)
    /\ ipin = standardBit
    /\ Store(standardBranch(enter))
    /\ ipin' = nextIpin(ipin)
    /\ UNCHANGED <<pc, buttonLevel>>

\* dilute with analyze ON and a mode selected: phase 1 is applied and the
\* 2 s hold begins
diluteStart ==
    /\ readButton(LOW)
    /\ ipin = diluteBit
    /\ LET m1 == digitalWrite(enter, LEDPins[diluteBit], HIGH)
       IN /\ diluteAllowed(m1.buttonWord)
          /\ diluteIndex(m1.buttonWord) >= 0
          /\ LET m2 == SerialPrint(m1, "In analyze mode, will commence dilution ")
                 k == diluteIndex(m2.buttonWord)
                 m3 == [SerialPrint(m2, diluteNarration(k)) EXCEPT !.i = k]
             IN Store(dilutePhase1(m3))
    /\ pc' = "diluteDelay"
    /\ UNCHANGED <<ipin, buttonLevel>>

\* delay(diluteDelay) elapses, phase 2 is applied, the bounce hold begins
diluteAnalyze ==
    /\ pc = "diluteDelay"
    /\ Store(dilutePhase2(delay(Machine, diluteDelay)))
    /\ pc' = "bounceDelay"
    /\ UNCHANGED <<ipin, buttonState, lastbuttonState, buttonLevel>>

\* variant: the sequence ends without turning the dilute LED off
diluteFinishLEDOn ==
    /\ pc = "bounceDelay"
    /\ LET m1 == delay(Machine, buttonBounceDelay)
       IN Store(SerialPrint(m1, "Finished dilute process sequence"))
    /\ pc' = "scan"
    /\ ipin' = nextIpin(ipin)
    /\ UNCHANGED <<buttonState, lastbuttonState, buttonLevel>>

\* the bounce hold elapses, the dilute LED goes off, the scan resumes
diluteFinish ==
    /\ pc = "bounceDelay"
    /\ LET m1 == delay(Machine, buttonBounceDelay)
           m2 == SerialPrint(m1, "Finished dilute process sequence")
       IN Store(digitalWrite(m2, LEDPins[diluteBit], LOW))
    /\ pc' = "scan"
    /\ ipin' = nextIpin(ipin)
    /\ UNCHANGED <<buttonState, lastbuttonState, buttonLevel>>

\* dilute with analyze ON but no mode bit active: i = -1, nothing applied
diluteNoMode ==
    /\ readButton(LOW)
    /\ ipin = diluteBit
    /\ LET m1 == digitalWrite(enter, LEDPins[diluteBit], HIGH)
       IN /\ diluteAllowed(m1.buttonWord)
          /\ diluteIndex(m1.buttonWord) < 0
          /\ LET m2 == SerialPrint(m1, "In analyze mode, will commence dilution ")
                 k == diluteIndex(m2.buttonWord)
                 m3 == [SerialPrint(m2, diluteNarration(k)) EXCEPT !.i = k]
             IN Store(digitalWrite(m3, LEDPins[diluteBit], LOW))
    /\ ipin' = nextIpin(ipin)
    /\ UNCHANGED <<pc, buttonLevel>>

\* dilute while NOT in analyze: logged, held, nothing else
diluteRejected ==
    /\ readButton(LOW)
    /\ ipin = diluteBit
    /\ LET m1 == digitalWrite(enter, LEDPins[diluteBit], HIGH)
       IN /\ ~diluteAllowed(m1.buttonWord)
          /\ LET m2 == SerialPrint(m1,
                     "dilute pressed when NOT in analyze mode, taking no action")
                 m3 == delay(m2, buttonBounceDelay)
             IN Store(digitalWrite(m3, LEDPins[diluteBit], LOW))
    /\ ipin' = nextIpin(ipin)
    /\ UNCHANGED <<pc, buttonLevel>>

\* ------------------------------------------------------------ environment
held(bl) == Cardinality({b \in ButtonPinSet : bl[b] = LOW})

\* the operator pushes a button down
buttonDown ==
    /\ held(buttonLevel) < MaxHeld
    /\ \E b \in ButtonPinSet :
          /\ buttonLevel[b] = HIGH
          /\ buttonLevel' = [buttonLevel EXCEPT ![b] = LOW]
    /\ UNCHANGED <<pc, ipin, i, buttonState, lastbuttonState, buttonWord,
                   LEDWord, pinsToSet, pinLevel, written, events>>

\* the operator lets a button go
buttonUp ==
    /\ \E b \in ButtonPinSet :
          /\ buttonLevel[b] = LOW
          /\ buttonLevel' = [buttonLevel EXCEPT ![b] = HIGH]
    /\ UNCHANGED <<pc, ipin, i, buttonState, lastbuttonState, buttonWord,
                   LEDWord, pinsToSet, pinLevel, written, events>>

\* ---------------------------------------------------------- specification
\* the globals as initialised at lines 84-91, every pin latch LOW after reset
Init ==
    /\ pc = "boot"
    /\ ipin = 0
    /\ i = 0
    /\ buttonState = 0
    /\ lastbuttonState = 65535
    /\ buttonWord = 65535
    /\ LEDWord = 0
    /\ pinsToSet = 0
    /\ pinLevel = [p \in Pins |-> LOW]
    /\ written = {}
    /\ events = <<>>
    /\ buttonLevel \in {bl \in [ButtonPinSet -> {LOW, HIGH}] : held(bl) <= MaxHeld}

Controller ==
    \/ setup
    \/ scanIdle
    \/ pushAction
    \/ pushMode
    \/ pushStandard
    \/ diluteStart
    \/ diluteAnalyze
    \/ diluteFinish
    \/ diluteNoMode
    \/ diluteRejected

Next ==
    \/ Controller
    \/ buttonDown
    \/ buttonUp

Spec == Init /\ [][Next]_vars

\* buttons held through a pass: the operator changes a button only between
\* two passes, before position 7 is read
betweenPasses == pc = "scan" /\ ipin = actionIdx

HeldNext ==
    \/ Controller
    \/ (betweenPasses /\ buttonDown)
    \/ (betweenPasses /\ buttonUp)

HeldSpec == Init /\ [][HeldNext]_vars

\* delay() returns and the straight-line code of the dilute branch goes on:
\* a dilute sequence that has started takes its next step, whatever the
\* operator does
FairSpec == Spec /\ WF_vars(diluteAnalyze) /\ WF_vars(diluteFinish)

\* ------------------------------------------------- the output driver alone
\* setOutputPins called repeatedly on one plan, for every 16-bit plan, from
\* outputs that are all LOW, all HIGH, or left by the startup plan
priorLevels ==
    {[pin \in Pins |-> LOW], [pin \in Pins |-> HIGH],
     [pin \in Pins |-> IF \E p \in 4..15 : outPins[p] = pin /\ bitRead(setPinsStartup, lsb[p]) = 1
                       THEN HIGH ELSE LOW]}

driverInit ==
    /\ pc = "driver"
    /\ ipin = 0
    /\ i = 0
    /\ buttonState = 0
    /\ lastbuttonState = 65535
    /\ buttonWord = 65535
    /\ LEDWord = 0
    /\ pinsToSet \in 0..65535
    /\ pinLevel \in priorLevels
    /\ written = {}
    /\ events = <<>>
    /\ buttonLevel = [b \in ButtonPinSet |-> HIGH]

driverApply ==
    /\ pc = "driver"
    /\ Len(events) < MaxApplies
    /\ Store(setOutputPins(Machine, pinsToSet))
    /\ UNCHANGED <<pc, ipin, buttonState, lastbuttonState, buttonLevel>>

DriverSpec == driverInit /\ [][driverApply]_vars

\* ================================================================ properties
\* vocabulary shared by the properties below
Active(w, p) == bitRead(w, lsb[p]) = 0

ActionPositions == actionIdx..(actionIdx + nActions - 1)

ModePositions == modeIdx..(modeIdx + nModes - 1)

WiredOutputs == {p \in 0..15 : outPins[p] # 0}

ActiveIn(w, S) == {p \in S : Active(w, p)}

\* every wired actuator output is at the level the plan encodes
OutputsCarry(plan) ==
    \A p \in WiredOutputs : pinLevel[outPins[p]] = bitRead(plan, lsb[p])

\* this step services the button at position p, which reads LOW
Pressed(p) ==
    /\ pc = "scan"
    /\ ipin = p
    /\ buttonLevel[buttonPins[p]] = LOW
    /\ buttonLevel' = buttonLevel

OutputsUnchanged ==
    \A p \in WiredOutputs : pinLevel'[outPins[p]] = pinLevel[outPins[p]]

Printed(ev, text) == \E n \in 1..Len(ev) : ev[n] = <<"print", text>>

\* the plan applications and holds of a handler, in order
Actuation(ev) ==
    SelectSeq(ev, LAMBDA e : e[1] \in {"setOutputPins", "delay"})

PlansApplied(ev) ==
    SelectSeq(ev, LAMBDA e : e[1] = "setOutputPins")

MatchingKeys(w) == {k \in 0..11 : buttonSetsOneStep[k] = w}

RejectionNotice == "dilute pressed when NOT in analyze mode, taking no action"

\* ---------------------------------------------------------------------- C1
\* C1 as stated: a Dilute press handled while Analyze is not active leaves
\* buttonWord, LEDWord, pinsToSet and every actuator output level exactly
\* as they were before the press.
C1_DiluteRejectionChangesNothing ==
    [][(Pressed(diluteBit) /\ ~Active(buttonWord, analyzeBit)) =>
          /\ buttonWord' = buttonWord
          /\ LEDWord' = LEDWord
          /\ pinsToSet' = pinsToSet
          /\ OutputsUnchanged]_vars

\* C1 amended: a Dilute press handled while Analyze is not active leaves
\* pinsToSet and every actuator output level unchanged, and leaves
\* buttonWord and LEDWord unchanged except that the Standard bit, if it was
\* active, is made inactive by the standard-clear guard.
C1_DiluteRejectionFrame ==
    [][(Pressed(diluteBit) /\ ~Active(buttonWord, analyzeBit)) =>
          /\ buttonWord' = bitWrite(buttonWord, lsb[standardBit], HIGH)
          /\ LEDWord' = bitWrite(LEDWord, lsb[standardBit], HIGH)
          /\ (~Active(LEDWord, standardBit) =>
                 buttonWord' = buttonWord /\ LEDWord' = LEDWord)
          /\ pinsToSet' = pinsToSet
          /\ OutputsUnchanged]_vars

\* a rejected Dilute press has just been handled right after Standard
C1_Witness ==
    /\ pc = "scan"
    /\ Printed(events, RejectionNotice)
    /\ buttonWord = 65535
    /\ OutputsCarry(setPinsStandard)

\* ---------------------------------------------------------------------- C2
\* the dilute gate: Analyze active and some Mode bit active
Gate(w) == Active(w, analyzeBit) /\ ActiveIn(w, ModePositions) # {}

\* this step ends the handling of a Dilute press
DiluteReturns == pc' = "scan" /\ (Pressed(diluteBit) \/ pc = "bounceDelay")

\* a phase-1 plan and then the phase-2 plan of the same mode were applied
BothPhases(ev) ==
    \E k \in 0..3 :
        PlansApplied(ev) = << <<"setOutputPins", setPinsDilute1[k]>>,
                              <<"setOutputPins", setPinsDilute2[k]>> >>

\* C2 as stated: on a Dilute press the dilute sequence starts, and its two
\* plans get applied, if and only if the Analyze bit is active.
C2_DilutePlansIffAnalyze ==
    [][/\ Pressed(diluteBit) =>
            ((pc' = "diluteDelay") <=> Active(buttonWord, analyzeBit))
       /\ DiluteReturns =>
            (BothPhases(events') <=> Active(buttonWord, analyzeBit))]_vars

\* C2 amended: on a Dilute press the phase-1 and phase-2 plans are applied
\* if and only if the Analyze bit is active and at least one Mode bit is
\* active; in every other case no plan is applied at all.
C2_DiluteGating ==
    [][/\ Pressed(diluteBit) =>
            ((pc' = "diluteDelay") <=> Gate(buttonWord))
       /\ DiluteReturns =>
            (BothPhases(events') <=> Gate(buttonWord))
       /\ (DiluteReturns /\ ~Gate(buttonWord)) =>
            PlansApplied(events') = <<>>]_vars

\* a Dilute press was handled with Analyze active and no Mode selected
C2_Witness ==
    /\ pc = "scan"
    /\ Printed(events, "???")
    /\ Active(buttonWord, analyzeBit)
    /\ PlansApplied(events) = <<>>

\* ---------------------------------------------------------------------- C3
\* C3 as stated: when an Action or Mode press produces a buttonWord that is
\* none of the 12 keys, pinsToSet is unchanged and every wired actuator
\* output keeps the level it had before the press.
C3_UnmatchedKeepsOutputs ==
    [][((\E p \in ActionPositions \cup ModePositions : Pressed(p))
            /\ MatchingKeys(buttonWord') = {}) =>
          (pinsToSet' = pinsToSet /\ OutputsUnchanged)]_vars

\* ---------------------------------------------------------------------- C4
\* C4: whenever the loop is about to read a button, at most one Action bit
\* and at most one Mode bit is active, and an active Standard bit means
\* buttonWord is 65534.
C4_ButtonStateInvariant ==
    pc = "scan" =>
        /\ Cardinality(ActiveIn(buttonWord, ActionPositions)) <= 1
        /\ Cardinality(ActiveIn(buttonWord, ModePositions)) <= 1
        /\ (Active(buttonWord, standardBit) => buttonWord = 65534)

\* the loop is scanning with Standard active
C4_Witness ==
    /\ pc = "scan"
    /\ Active(buttonWord, standardBit)
    /\ Printed(events, "Pushed Standard")

\* ---------------------------------------------------------------------- C5
\* the handler that ran last was the Action-or-Mode branch
AfterOneStep == pc = "scan" /\ Printed(events, "Pushed Mode")

\* C5 as stated: every buttonWord produced by an Action or Mode press
\* equals exactly one of the 12 keys.
C5_ExactlyOneKey ==
    AfterOneStep => Cardinality(MatchingKeys(buttonWord)) = 1

\* C5 amended: every buttonWord produced by an Action or Mode press equals
\* at most one key; it equals exactly one when an Action bit and a Mode bit
\* are both active in it, and none otherwise (the other group was cleared by
\* a Standard press and not selected again).
C5_AtMostOneKey ==
    AfterOneStep =>
        /\ Cardinality(MatchingKeys(buttonWord)) <= 1
        /\ (Cardinality(MatchingKeys(buttonWord)) = 1 <=>
               (/\ ActiveIn(buttonWord, ActionPositions) # {}
                /\ ActiveIn(buttonWord, ModePositions) # {}))

\* an Action or Mode press has produced a buttonWord with no key
C5_Witness == AfterOneStep /\ MatchingKeys(buttonWord) = {}

\* ---------------------------------------------------------------------- C6
\* setup() has finished and no button has been serviced since
JustBooted == pc = "scan" /\ Printed(events, "End of setup")

\* C6: whatever the buttons' levels at boot, when setup() finishes
\* buttonWord = LEDWord = 65399, pinsToSet = 64144, exactly the Load and
\* Loop-A indicators are HIGH and the wired outputs carry 64144.
C6_StartupDeterminism ==
    JustBooted =>
        /\ buttonWord = 65399
        /\ LEDWord = 65399
        /\ pinsToSet = 64144
        /\ \A p \in actionIdx..15 :
              pinLevel[LEDPins[p]] =
                  IF p \in {loadBit, loopABit} THEN HIGH ELSE LOW
        /\ OutputsCarry(64144)

\* setup() has just finished while the Standard and Purge buttons are down
C6_Witness ==
    /\ JustBooted
    /\ ipin = actionIdx
    /\ buttonState = 0
    /\ buttonLevel[buttonPins[standardBit]] = LOW
    /\ buttonLevel[buttonPins[purcgBit]] = LOW

\* ---------------------------------------------------------------------- C7
\* C7: handling any Action, Mode or Dilute press leaves the Standard bit
\* inactive in buttonWord and LEDWord and the Standard indicator LOW, and
\* every buttonWord the handler looks up and displays already has the
\* Standard bit inactive; this stays so through the dilute sequence.
C7_StandardCleared ==
    [][((\E p \in actionIdx..diluteBit : Pressed(p))
            \/ pc \in {"diluteDelay", "bounceDelay"}) =>
          /\ ~Active(buttonWord', standardBit)
          /\ ~Active(LEDWord', standardBit)
          /\ pinLevel'[LEDPins[standardBit]] = LOW
          /\ \A n \in 1..Len(events') :
                events'[n][1] = "displayStates" =>
                    ~Active(events'[n][2], standardBit)]_vars

\* a Mode press has been handled right after Standard
C7_Witness ==
    /\ pc = "scan"
    /\ Printed(events, "Pushed Mode")
    /\ ~Printed(events, "Pushed Action")
    /\ ActiveIn(buttonWord, ActionPositions) = {}
    /\ pinLevel[LEDPins[standardBit]] = LOW

\* ---------------------------------------------------------------------- C8
\* C8: after an Action press at p, p is the only active Action position in
\* buttonWord and LEDWord and the Mode bits are as before; after a Mode
\* press at q, q is the only active Mode position and the Action bits are
\* as before.
C8_GroupExclusivity ==
    [][/\ \A p \in ActionPositions :
            Pressed(p) =>
                /\ ActiveIn(buttonWord', ActionPositions) = {p}
                /\ ActiveIn(LEDWord', ActionPositions) = {p}
                /\ ActiveIn(buttonWord', ModePositions)
                       = ActiveIn(buttonWord, ModePositions)
                /\ ActiveIn(LEDWord', ModePositions)
                       = ActiveIn(LEDWord, ModePositions)
       /\ \A q \in ModePositions :
            Pressed(q) =>
                /\ ActiveIn(buttonWord', ModePositions) = {q}
                /\ ActiveIn(LEDWord', ModePositions) = {q}
                /\ ActiveIn(buttonWord', ActionPositions)
                       = ActiveIn(buttonWord, ActionPositions)
                /\ ActiveIn(LEDWord', ActionPositions)
                       = ActiveIn(LEDWord, ActionPositions)]_vars

\* Purge was pressed over the startup selection: Load went off, Loop A stayed
C8_Witness ==
    /\ pc = "scan"
    /\ Printed(events, "Pushed Action")
    /\ ActiveIn(buttonWord, ActionPositions) = {purcgBit}
    /\ ActiveIn(buttonWord, ModePositions) = {loopABit}

\* ---------------------------------------------------------------------- C9
\* index of the first active Mode bit in the order Discrete, Septum, A, B
FirstActiveMode(w) ==
    CHOOSE k \in 0..3 :
        /\ Active(w, modeIdx + k)
        /\ \A j \in 0..(k - 1) : ~Active(w, modeIdx + j)

\* phase 1, settle hold, phase 2, bounce hold
DiluteSequence(k) ==
    << <<"setOutputPins", setPinsDilute1[k]>>, <<"delay", 2000>>,
       <<"setOutputPins", setPinsDilute2[k]>>, <<"delay", 500>> >>

\* C9: a Dilute press with Analyze and a Mode bit active applies
\* setPinsDilute1[i], holds 2000, applies setPinsDilute2[i] and holds 500,
\* i being the first active Mode in the order Discrete, Septum, Loop A,
\* Loop B, in that order with nothing skipped or repeated.
C9_DiluteOrdering ==
    [][/\ (Pressed(diluteBit) /\ Gate(buttonWord)) =>
            /\ pc' = "diluteDelay"
            /\ i' = FirstActiveMode(buttonWord)
            /\ Actuation(events') = SubSeq(DiluteSequence(i'), 1, 1)
       /\ (pc = "diluteDelay" /\ pc' # pc) =>
            /\ pc' = "bounceDelay"
            /\ i' = FirstActiveMode(buttonWord)
            /\ Actuation(events') = SubSeq(DiluteSequence(i'), 1, 3)
       /\ (pc = "bounceDelay" /\ pc' # pc) =>
            /\ pc' = "scan"
            /\ i' = FirstActiveMode(buttonWord)
            /\ Actuation(events') = DiluteSequence(i')]_vars

\* a dilute sequence for Loop A has run to its end
C9_Witness ==
    /\ pc = "scan"
    /\ Printed(events, "Finished dilute process sequence")
    /\ Active(buttonWord, loopABit)
    /\ Actuation(events) = DiluteSequence(2)

\* --------------------------------------------------------------------- C10
\* C10 as stated: no operation issues a pin write for a position whose pin
\* entry is 0, so pin 0 never receives a digitalWrite.
C10_AbsentPinsNeverWritten == 0 \notin written

\* --------------------------------------------------------------------- C11
\* C11: for each k in 0..11, once the Action-or-Mode branch has looked up
\* buttonWord = buttonSetsOneStep[k], pinsToSet is setPinsOneStep[k], and
\* every wired actuator at position p is LOW iff bit 15-p of that plan is 0
\* and HIGH iff it is 1.
C11_LookupAndApply ==
    \A k \in 0..11 :
        (AfterOneStep /\ buttonWord = buttonSetsOneStep[k]) =>
            /\ pinsToSet = setPinsOneStep[k]
            /\ \A p \in 4..15 :
                  /\ outPins[p] # 0
                  /\ (pinLevel[outPins[p]] = LOW
                         <=> bitRead(setPinsOneStep[k], 15 - p) = 0)
                  /\ (pinLevel[outPins[p]] = HIGH
                         <=> bitRead(setPinsOneStep[k], 15 - p) = 1)

\* Load + Discrete (row 4) has been looked up and applied
C11_Witness ==
    /\ AfterOneStep
    /\ buttonWord = 65375
    /\ pinsToSet = 63056
    /\ pinLevel[outPins[4]] = LOW
    /\ pinLevel[outPins[5]] = HIGH

\* --------------------------------------------------------------------- C13
\* C13 as stated: after setup and whenever the loop is about to read a
\* button, every wired actuator output is at the level encoded by the
\* current pinsToSet.
C13_OutputsCarryPinsToSet == pc = "scan" => OutputsCarry(pinsToSet)

\* --------------------------------------------------------------------- C14
\* the handler that ran last was the Standard branch
AfterStandard == pc = "scan" /\ Printed(events, "Pushed Standard")

\* C14: after a Standard press buttonWord = LEDWord = 65534, the Standard
\* indicator is HIGH, the indicators of positions 7..14 are LOW and the
\* wired outputs carry 64140, whatever the state before.
C14_StandardPress ==
    AfterStandard =>
        /\ buttonWord = 65534
        /\ LEDWord = 65534
        /\ pinLevel[LEDPins[15]] = HIGH
        /\ \A p \in 7..14 : pinLevel[LEDPins[p]] = LOW
        /\ OutputsCarry(64140)

\* Standard was pressed while a plan other than 64140 was recorded
C14_Witness ==
    /\ AfterStandard
    /\ buttonWord = 65534
    /\ pinsToSet = 64097
    /\ pinLevel[outPins[15]] = LOW

\* --------------------------------------------------------------------- C15
\* C15 as stated: handling one Action press performs one lookup, one
\* application of the plan and one bounce hold of 500, as a Mode press does.
C15_OneApplyOneHold ==
    (pc = "scan" /\ Printed(events, "Pushed Action")) =>
        Actuation(events) = << <<"setOutputPins", pinsToSet>>, <<"delay", 500>> >>

\* --------------------------------------------------------------------- C18
\* C18: whenever the loop is about to read a button, LEDWord equals
\* buttonWord, each wired indicator pin is HIGH iff its bit in LEDWord is 0,
\* the Dilute bit is inactive and the Dilute indicator is LOW.
C18_IndicatorMirror ==
    pc = "scan" =>
        /\ LEDWord = buttonWord
        /\ \A p \in 7..15 :
              (pinLevel[LEDPins[p]] = HIGH) <=> (bitRead(LEDWord, 15 - p) = 0)
        /\ bitRead(LEDWord, 15 - 14) = 1
        /\ bitRead(buttonWord, 15 - 14) = 1
        /\ pinLevel[LEDPins[14]] = LOW

\* a dilute sequence has ended: the Dilute indicator is LOW again and the
\* Analyze and Loop B indicators are lit
C18_Witness ==
    /\ pc = "scan"
    /\ Printed(events, "Finished dilute process sequence")
    /\ pinLevel[LEDPins[diluteBit]] = LOW
    /\ pinLevel[LEDPins[analyzeBit]] = HIGH
    /\ pinLevel[LEDPins[loopBBit]] = HIGH

\* --------------------------------------------------------------------- C19
\* C19: whenever the loop is about to read a button and buttonWord is the
\* key of row k, pinsToSet is setPinsOneStep[k] and the wired outputs carry
\* it; this covers the startup state and the end of every dilute sequence.
C19_PlanMatchesState ==
    pc = "scan" =>
        \A k \in 0..11 :
            buttonWord = buttonSetsOneStep[k] =>
                pinsToSet = setPinsOneStep[k] /\ OutputsCarry(setPinsOneStep[k])

\* a dilute sequence for Septum has ended on the plan of Analyze + Septum
C19_Witness ==
    /\ pc = "scan"
    /\ Printed(events, "Finished dilute process sequence")
    /\ buttonWord = buttonSetsOneStep[9]
    /\ pinsToSet = 64098
    /\ OutputsCarry(64098)

\* --------------------------------------------------------------------- C12
\* C12: for every 16-bit plan and prior output state, a second call of
\* setOutputPins with the same plan leaves every pin level as the first
\* call left it.
C12_Idempotent ==
    [][(pc = "driver" /\ Len(events) >= 1) => pinLevel' = pinLevel]_vars

\* setOutputPins(63914) has run twice in a row
C12_Witness ==
    /\ pc = "driver"
    /\ Len(events) = 2
    /\ events[1] = events[2]
    /\ pinsToSet = 63914
    /\ OutputsCarry(63914)

\* --------------------------------------------------------------------- C16
\* a step taken during the dilute holds reads no button, leaves buttonWord,
\* LEDWord and the mode index alone and can only move on to the next stage of the sequence
DiluteUninterrupted ==
    pc \in {"diluteDelay", "bounceDelay"} =>
        /\ buttonWord' = buttonWord
        /\ LEDWord' = LEDWord
        /\ buttonState' = buttonState
        /\ lastbuttonState' = lastbuttonState
        /\ i' = i
        /\ (pc' = pc \/ pc' = (IF pc = "diluteDelay" THEN "bounceDelay" ELSE "scan"))

\* C16: once phase 1 of a dilute sequence has been applied for mode index
\* i, phase 2 for the same i is eventually applied and the sequence ends
\* with the Dilute indicator LOW; until it ends no button is read and
\* buttonWord and LEDWord do not change, whatever the buttons do.
C16_DiluteRunsToCompletion ==
    /\ [][DiluteUninterrupted]_vars
    /\ (pc = "diluteDelay") ~>
          (/\ pc = "scan"
           /\ Printed(events, "Finished dilute process sequence")
           /\ PlansApplied(events) = << <<"setOutputPins", setPinsDilute1[i]>>,
                                        <<"setOutputPins", setPinsDilute2[i]>> >>
           /\ pinLevel[LEDPins[diluteBit]] = LOW)

\* phase 1 has been applied and a button other than Dilute went down
\* during the settle hold
C16_Witness ==
    /\ pc = "diluteDelay"
    /\ buttonLevel[buttonPins[standardBit]] = LOW
    /\ pinLevel[LEDPins[diluteBit]] = HIGH
    /\ PlansApplied(events) = << <<"setOutputPins", setPinsDilute1[i]>> >>

\* --------------------------------------------------------------------- C17
\* the positions whose button is down
HeldPositions == {p \in 7..15 : buttonLevel[buttonPins[p]] = LOW}

\* a step of the controller (the operator's steps change buttonLevel)
ControllerStep == buttonLevel' = buttonLevel

\* the position read after position p in the scan 7, 8, ..., 15, 7, ...
After(p) == IF p = 15 THEN 7 ELSE p + 1

\* each step at the scan reads position ipin and goes on to the next one, or
\* enters the dilute sequence, which resumes the scan at the next position
ScanInOrder ==
    /\ (pc = "scan" /\ ControllerStep) =>
          /\ buttonState' = buttonLevel[buttonPins[ipin]]
          /\ \/ pc' = "scan" /\ ipin' = After(ipin)
             \/ pc' = "diluteDelay" /\ ipin = 14 /\ ipin' = ipin
    /\ (pc = "diluteDelay" /\ ControllerStep) => ipin' = ipin
    /\ (pc = "bounceDelay" /\ ControllerStep) => ipin' = After(ipin)

\* a button that reads LOW is serviced in the step that reads it, one that
\* reads HIGH is not
ServicedWhenRead ==
    (pc = "scan" /\ ControllerStep) =>
        /\ (ipin \in 7..9 /\ ipin \in HeldPositions) =>
              Printed(events', "Pushed Action") /\ Active(buttonWord', ipin)
        /\ (ipin \in 10..13 /\ ipin \in HeldPositions) =>
              /\ Printed(events', "Pushed Mode")
              /\ ~Printed(events', "Pushed Action")
              /\ Active(buttonWord', ipin)
        /\ (ipin = 14 /\ ipin \in HeldPositions) =>
              \/ Printed(events', "In analyze mode, will commence dilution ")
              \/ Printed(events', RejectionNotice)
        /\ (ipin = 15 /\ ipin \in HeldPositions) =>
              Printed(events', "Pushed Standard") /\ Active(buttonWord', 15)
        /\ ipin \notin HeldPositions =>
              events' = events /\ buttonWord' = buttonWord /\ pinLevel' = pinLevel

\* with exactly an Action button p and a Mode button q held through the
\* pass, the Mode press finds the Action press already serviced, and both
\* bits are active after it and when the pass ends
BothServiced ==
    \A p \in 7..9 : \A q \in 10..13 :
        (pc = "scan" /\ ControllerStep /\ HeldPositions = {p, q}) =>
            /\ ipin = q =>
                  /\ Printed(events, "Pushed Action")
                  /\ Active(buttonWord, p)
                  /\ ActiveIn(buttonWord', 7..13) = {p, q}
            /\ ipin = 15 => ActiveIn(buttonWord', 7..13) = {p, q}

\* C17: in each pass positions 7..15 are read once each in ascending order,
\* a button that reads active is serviced at that point without restarting
\* or ending the pass, and with an Action and a Mode button held through a
\* pass both are serviced in it, Action first, and both bits are active
\* after the pass.
C17_ScanOrder == [][ScanInOrder /\ ServicedWhenRead /\ BothServiced]_vars

\* Purge and Loop B are held and the pass has serviced both, over the
\* startup selection Load + Loop A
C17_Witness ==
    /\ pc = "scan"
    /\ ipin = 15
    /\ HeldPositions = {purcgBit, loopBBit}
    /\ ActiveIn(buttonWord, 7..13) = {purcgBit, loopBBit}
    /\ Printed(events, "Pushed Mode")
    /\ ~Printed(events, "Pushed Action")

\* --------------------------------------------------------------------- C20
\* the handler log shows an Action press / a Mode press
ActionLog(ev) == Printed(ev, "Pushed Action")
ModeLog(ev) == Printed(ev, "Pushed Mode") /\ ~Printed(ev, "Pushed Action")

\* a read is serviced exactly when the level is LOW, whatever the reading
\* before it was; the read overwrites buttonState and lastbuttonState
LevelTriggered ==
    (pc = "scan" /\ ControllerStep) =>
        /\ buttonState' = buttonLevel[buttonPins[ipin]]
        /\ lastbuttonState' = buttonLevel[buttonPins[ipin]]
        /\ IF ipin \in HeldPositions
           THEN /\ events' # <<>>
                /\ events'[1][1] \in {"print", "displayStates"}
                /\ \/ PlansApplied(events') # <<>>
                   \/ Printed(events', RejectionNotice)
                   \/ Printed(events', "In analyze mode, will commence dilution ")
           ELSE UNCHANGED <<pc, i, buttonWord, LEDWord, pinsToSet, pinLevel,
                            written, events>>

\* Dilute read LOW again after a finished sequence starts the sequence
\* again: phase 1 of the active mode is applied and the hold begins
HeldDilute ==
    (Pressed(diluteBit) /\ Printed(events, "Finished dilute process sequence")) =>
        /\ Gate(buttonWord)
        /\ pc' = "diluteDelay"
        /\ buttonWord' = buttonWord
        /\ i' = i
        /\ PlansApplied(events') = << <<"setOutputPins", setPinsDilute1[i]>> >>

\* an Action or Mode button read LOW again right after its own press
\* applies the plan it applied before and leaves buttonWord as it is
HeldOneStep ==
    \A p \in 7..13 :
        (/\ Pressed(p)
         /\ Active(buttonWord, p)
         /\ IF p \in ActionPositions THEN ActionLog(events) ELSE ModeLog(events)) =>
            /\ buttonWord' = buttonWord
            /\ pinsToSet' = pinsToSet
            /\ PlansApplied(events') # <<>>
            /\ \A n \in 1..Len(PlansApplied(events')) :
                  PlansApplied(events')[n] = <<"setOutputPins", pinsToSet>>
            /\ events' = events

\* C20: a button is serviced whenever its level reads LOW, whatever was read
\* before (lastbuttonState plays no part), so a button held over several
\* passes is serviced in each: a held Dilute with Analyze and a Mode active
\* starts the two-phase sequence again, and a held Action or Mode button
\* applies the same plan again and leaves buttonWord unchanged.
C20_LevelTriggered == [][LevelTriggered /\ HeldDilute /\ HeldOneStep]_vars

\* a dilute sequence has finished, nothing has been serviced since, and
\* Dilute, still the only button down, is about to be read LOW again
C20_Witness ==
    /\ pc = "scan"
    /\ ipin = diluteBit
    /\ HeldPositions = {diluteBit}
    /\ Printed(events, "Finished dilute process sequence")

====
